---- MODULE Spec2Model ----
(***************************************************************************)
(* Model of scripts/audio_processor.py: the batch run of main() (scan,     *)
(* probe, classify, encode, summary, manifest, TypeScript map) and the     *)
(* library functions categorize_file, create_audio_sprite_manifest and     *)
(* generate_typescript_map.                                                *)
(*                                                                         *)
(* Python str values are sequences of one-character strings, so that       *)
(* substring tests, lower(), replace() and path suffixes are computed.     *)
(* pathlib paths are sequences of parts whose last part is the file name.  *)
(* File sizes are carried in units of 1/1024 KB (bytes): getsize()/1024    *)
(* and the sums of such values are exact in binary floating point.         *)
(* Sprite times are carried in milliseconds.                               *)
(***************************************************************************)
EXTENDS Integers, Sequences, FiniteSets, TLC

\* ------------------------------------------------------------------------
\* Bounds of the model
\* ------------------------------------------------------------------------
\* largest number of entries of the audio directory in one run
MaxFiles == 2
\* largest number of fragments a classified file name is built from
MaxFragments == 2
\* largest number of (filepath, info) pairs given to the sprite builder
MaxSprites == 3
\* largest number of fragments the 'original' of a mapped entry is built from
MaxKeyFragments == 3

\* ------------------------------------------------------------------------
\* Characters and strings
\* ------------------------------------------------------------------------
\* printable ASCII in code-point order: codes 32..95
AsciiLow ==
  <<" ","!","\"","#","$","%","&","'","(",")","*","+",",","-",".","/",
    "0","1","2","3","4","5","6","7","8","9",":",";","<","=",">","?",
    "@","A","B","C","D","E","F","G","H","I","J","K","L","M","N","O",
    "P","Q","R","S","T","U","V","W","X","Y","Z","[","\\","]","^","_">>

\* codes 97..126 (code 96 is outside the modelled alphabet)
AsciiHigh ==
  <<"a","b","c","d","e","f","g","h","i","j","k","l","m","n","o",
    "p","q","r","s","t","u","v","w","x","y","z","{","|","}","~">>

Range(s) == {s[i] : i \in 1..Len(s)}

\* code point of a character
Ord ==
  [c \in Range(AsciiLow) \cup Range(AsciiHigh) |->
     IF c \in Range(AsciiLow)
     THEN 31 + (CHOOSE i \in 1..Len(AsciiLow) : AsciiLow[i] = c)
     ELSE 96 + (CHOOSE i \in 1..Len(AsciiHigh) : AsciiHigh[i] = c)]

Chr(n) == IF n <= 95 THEN AsciiLow[n - 31] ELSE AsciiHigh[n - 96]

\* str.lower() on one ASCII character
LowerChar(c) == IF Ord[c] >= 65 /\ Ord[c] <= 90 THEN Chr(Ord[c] + 32) ELSE c

\* str.lower()
str_lower(s) == [i \in 1..Len(s) |-> LowerChar(s[i])]

\* Python's `sub in s`
str_contains(sub, s) ==
  \/ sub = <<>>
  \/ \E i \in 0..(Len(s) - Len(sub)) :
       s[i + 1] = sub[1] /\ SubSeq(s, i + 1, i + Len(sub)) = sub

\* s.startswith(p) at offset i (0-based)
StartsAt(s, i, p) ==
  i + Len(p) <= Len(s) /\ SubSeq(s, i + 1, i + Len(p)) = p

\* str.endswith
str_endswith(s, suffix) ==
  Len(s) >= Len(suffix) /\ SubSeq(s, Len(s) - Len(suffix) + 1, Len(s)) = suffix

\* str.replace(old, '', 1): only the leftmost occurrence removed
RECURSIVE RemoveFirstFrom(_, _, _)
RemoveFirstFrom(s, i, old) ==
  IF i >= Len(s) THEN <<>>
  ELSE IF i + Len(old) <= Len(s) /\ SubSeq(s, i + 1, i + Len(old)) = old
       THEN SubSeq(s, i + Len(old) + 1, Len(s))
  ELSE <<s[i + 1]>> \o RemoveFirstFrom(s, i + 1, old)

str_remove_first(s, old) == RemoveFirstFrom(s, 0, old)

\* str.replace(old, ''): leftmost non-overlapping occurrences removed in one pass
RECURSIVE RemoveFrom(_, _, _)
RemoveFrom(s, i, old) ==
  IF i >= Len(s) THEN <<>>
  ELSE IF StartsAt(s, i, old) THEN RemoveFrom(s, i + Len(old), old)
  ELSE <<s[i + 1]>> \o RemoveFrom(s, i + 1, old)

str_remove(s, old) == RemoveFrom(s, 0, old)

\* lexicographic order of str by code point: a < b
RECURSIVE str_less(_, _)
str_less(a, b) ==
  IF b = <<>> THEN FALSE
  ELSE IF a = <<>> THEN TRUE
  ELSE IF Head(a) # Head(b) THEN Ord[Head(a)] < Ord[Head(b)]
  ELSE str_less(Tail(a), Tail(b))

\* ------------------------------------------------------------------------
\* Category registry
\* ------------------------------------------------------------------------
\* the keyword table, in the insertion order a dict iterates in
AUDIO_CATEGORIES ==
  <<
    [category |-> <<"c","o","m","b","a","t">>,
     keywords |-> <<
        <<"s","h","o","t","g","u","n","_","f","i","r","e">>,
        <<"s","h","o","t","g","u","n","_","e","m","p","t","y">>,
        <<"s","h","o","t","g","u","n","_","r","e","l","o","a","d">>,
        <<"h","a","t","c","h","e","t","_","s","w","i","n","g">>,
        <<"h","a","t","c","h","e","t","_","h","i","t","_","f","l","e","s","h">>,
        <<"h","a","t","c","h","e","t","_","m","i","s","s">>,
        <<"H","e","a","v","y","_","d","o","u","b","l","e","-","b","a","r","r","e","l">>,
        <<"D","r","y","_","c","l","i","c","k","_","o","f","_","e","m","p","t","y">>,
        <<"S","h","o","t","g","u","n","_","s","h","e","l","l","_","l","o","a","d","i","n">>,
        <<"F","a","s","t","_","w","h","o","o","s","h","_","s","o","u","n","d">> >>],
    [category |-> <<"n","i","g","h","t","m","a","n">>,
     keywords |-> <<
        <<"n","i","g","h","t","m","a","n","_","f","o","o","t","s","t","e","p","_","h","e","a","v","y">>,
        <<"n","i","g","h","t","m","a","n","_","f","o","o","t","s","t","e","p","_","l","i","g","h","t">>,
        <<"n","i","g","h","t","m","a","n","_","g","r","o","w","l","_","l","o","w">>,
        <<"n","i","g","h","t","m","a","n","_","g","r","o","w","l","_","a","g","g","r","e","s","s","i","v","e">>,
        <<"n","i","g","h","t","m","a","n","_","a","t","t","a","c","k","_","s","w","i","n","g">>,
        <<"n","i","g","h","t","m","a","n","_","a","t","t","a","c","k","_","h","i","t">>,
        <<"n","i","g","h","t","m","a","n","_","d","a","m","a","g","e","d">>,
        <<"n","i","g","h","t","m","a","n","_","d","e","a","t","h">>,
        <<"M","a","s","s","i","v","e","_","c","r","e","a","t","u","r","e","_","f","o","o">>,
        <<"H","e","a","v","y","_","h","u","m","a","n","-","s","i","z","e","d","_","f","o">>,
        <<"D","e","e","p","_","g","u","t","t","u","r","a","l","_","m","o","n","s","t","e">>,
        <<"g","u","t","t","u","r","a","l","_","d","e","m","o","n","_","h","u","n","t","i">>,
        <<"M","a","s","s","i","v","e","_","c","r","e","a","t","u","r","e","_","a","r","m">>,
        <<"H","e","a","v","y","_","i","m","p","a","c","t","_","o","f","_","m","o","n","s">>,
        <<"M","o","n","s","t","e","r","_","p","a","i","n","_","r","o","a","r">>,
        <<"M","a","s","s","i","v","e","_","c","r","e","a","t","u","r","e","_","d","y","i">> >>],
    [category |-> <<"t","r","a","n","s","f","o","r","m","a","t","i","o","n">>,
     keywords |-> <<
        <<"b","o","n","e","_","c","r","a","c","k","_","1">>,
        <<"b","o","n","e","_","c","r","a","c","k","_","2">>,
        <<"b","o","n","e","_","c","r","a","c","k","_","3">>,
        <<"t","r","a","n","s","f","o","r","m","a","t","i","o","n","_","w","h","o","o","s","h">>,
        <<"t","r","a","n","s","f","o","r","m","a","t","i","o","n","_","c","o","m","p","l","e","t","e">>,
        <<"W","e","t","_","b","o","n","e","_","s","n","a","p","p","i","n","g">>,
        <<"M","u","l","t","i","p","l","e","_","b","o","n","e","s","_","b","r","e","a","k">>,
        <<"F","i","n","a","l","_","m","a","s","s","i","v","e","_","b","o","n","e">>,
        <<"D","a","r","k","_","e","t","h","e","r","e","a","l","_","w","h","o","o","s","h">>,
        <<"O","m","i","n","o","u","s","_","l","o","w","_","r","u","m","b","l","e">> >>],
    [category |-> <<"e","n","v","i","r","o","n","m","e","n","t">>,
     keywords |-> <<
        <<"w","i","n","d","o","w","_","t","a","p","_","l","i","g","h","t">>,
        <<"w","i","n","d","o","w","_","t","a","p","_","h","e","a","v","y">>,
        <<"w","i","n","d","o","w","_","s","c","r","a","t","c","h">>,
        <<"w","i","n","d","o","w","_","b","r","e","a","k">>,
        <<"d","o","o","r","_","c","r","e","a","k">>,
        <<"d","o","o","r","_","r","a","t","t","l","e">>,
        <<"d","o","o","r","_","b","a","n","g","_","h","e","a","v","y">>,
        <<"d","o","o","r","_","s","p","l","i","n","t","e","r">>,
        <<"L","i","g","h","t","_","t","a","p","p","i","n","g","_","o","n","_","w","o","o">>,
        <<"H","e","a","v","y","_","p","o","u","n","d","i","n","g","_","o","n","_","w","o">>,
        <<"S","h","a","r","p","_","c","l","a","w","s","_","s","c","r","a","t","c","h","i">>,
        <<"w","o","o","d","e","n","_","b","o","a","r","d","_","s","h","a","t","t","e","r">>,
        <<"D","o","o","r","_","h","a","n","d","l","e","_","r","a","t","t","l","i","n","g">>,
        <<"M","a","s","s","i","v","e","_","i","m","p","a","c","t","_","o","n","_","w","o">>,
        <<"W","o","o","d","_","d","o","o","r","_","s","p","l","i","n","t","e","r","i","n">>,
        <<"q","u","b","o","d","u","p","-","D","o","o","r","C","l","o","s","e","0","8">>,
        <<"q","u","b","o","d","u","p","-","D","o","o","r","O","p","e","n","0","8">> >>],
    [category |-> <<"i","t","e","m","s">>,
     keywords |-> <<
        <<"a","m","m","o","_","p","i","c","k","u","p">>,
        <<"w","o","o","d","_","p","i","c","k","u","p">>,
        <<"b","o","a","r","d","_","h","a","m","m","e","r">>,
        <<"p","i","c","k","u","p","_","a","m","m","o","_","s","o","u","n","d">>,
        <<"w","o","o","d","_","p","i","c","k","u","p","_","s","o","u","n","d">>,
        <<"H","a","m","m","e","r","i","n","g","_","n","a","i","l","_","i","n","t","o">>,
        <<"t","r","e","e","_","f","a","l","l","s","_","d","o","w","n">> >>],
    [category |-> <<"p","l","a","y","e","r">>,
     keywords |-> <<
        <<"p","l","a","y","e","r","_","h","i","t","_","l","i","g","h","t">>,
        <<"p","l","a","y","e","r","_","h","i","t","_","h","e","a","v","y">>,
        <<"p","l","a","y","e","r","_","d","e","a","t","h">>,
        <<"p","l","a","y","e","r","_","h","e","a","r","t","b","e","a","t">>,
        <<"M","a","l","e","_","g","r","u","n","t","_","o","f","_","p","a","i","n">>,
        <<"M","a","l","e","_","s","c","r","e","a","m","_","o","f","_","a","g","o","n","y">>,
        <<"M","a","l","e","_","d","e","a","t","h","_","s","c","r","e","a","m">>,
        <<"R","e","a","l","i","s","t","i","c","_","h","e","a","r","t","b","e","a","t">> >>],
    [category |-> <<"a","m","b","i","e","n","t">>,
     keywords |-> <<
        <<"f","o","r","e","s","t","_","n","i","g","h","t","_","l","o","o","p">>,
        <<"w","i","n","d","_","t","r","e","e","s">>,
        <<"c","a","b","i","n","_","a","m","b","i","e","n","c","e">>,
        <<"n","i","g","h","t","m","a","n","_","r","o","a","r","_","d","i","s","t","a","n","t">>,
        <<"s","t","e","p","d","i","r","t","_","1">>,
        <<"s","t","e","p","d","i","r","t","_","2">>,
        <<"s","t","e","p","w","o","o","d","_","1">>,
        <<"s","t","e","p","w","o","o","d","_","2">> >>]
  >>

\* the profiles, one per category
combat_profile ==
  [format |-> "ogg", bitrate |-> "96k", sample_rate |-> 44100, channels |-> 1,
   normalize |-> TRUE, compression |-> "vorbis", quality |-> 6]

nightman_profile ==
  [format |-> "ogg", bitrate |-> "80k", sample_rate |-> 44100, channels |-> 1,
   normalize |-> TRUE, compression |-> "vorbis", quality |-> 5]

transformation_profile ==
  [format |-> "ogg", bitrate |-> "96k", sample_rate |-> 44100, channels |-> 1,
   normalize |-> TRUE, compression |-> "vorbis", quality |-> 6]

environment_profile ==
  [format |-> "ogg", bitrate |-> "64k", sample_rate |-> 44100, channels |-> 1,
   normalize |-> TRUE, compression |-> "vorbis", quality |-> 4]

items_profile ==
  [format |-> "ogg", bitrate |-> "64k", sample_rate |-> 44100, channels |-> 1,
   normalize |-> TRUE, compression |-> "vorbis", quality |-> 4]

player_profile ==
  [format |-> "ogg", bitrate |-> "80k", sample_rate |-> 44100, channels |-> 1,
   normalize |-> TRUE, compression |-> "vorbis", quality |-> 5]

ambient_profile ==
  [format |-> "ogg", bitrate |-> "96k", sample_rate |-> 44100, channels |-> 2,
   normalize |-> FALSE, compression |-> "vorbis", quality |-> 6]

\* the table without its last entry
OPTIMIZATION_PROFILES_without_ambient ==
  <<"c","o","m","b","a","t">> :> combat_profile @@
  <<"n","i","g","h","t","m","a","n">> :> nightman_profile @@
  <<"t","r","a","n","s","f","o","r","m","a","t","i","o","n">> :> transformation_profile @@
  <<"e","n","v","i","r","o","n","m","e","n","t">> :> environment_profile @@
  <<"i","t","e","m","s">> :> items_profile @@
  <<"p","l","a","y","e","r">> :> player_profile

\* the profile table
OPTIMIZATION_PROFILES ==
  <<"c","o","m","b","a","t">> :> combat_profile @@
  <<"n","i","g","h","t","m","a","n">> :> nightman_profile @@
  <<"t","r","a","n","s","f","o","r","m","a","t","i","o","n">> :> transformation_profile @@
  <<"e","n","v","i","r","o","n","m","e","n","t">> :> environment_profile @@
  <<"i","t","e","m","s">> :> items_profile @@
  <<"p","l","a","y","e","r">> :> player_profile @@
  <<"a","m","b","i","e","n","t">> :> ambient_profile


Categories == {AUDIO_CATEGORIES[i].category : i \in 1..Len(AUDIO_CATEGORIES)}

\* a default that is no category of the table
DefaultCategory_unknown == <<"u","n","k","n","o","w","n">>

\* the value returned when no keyword matches
DefaultCategory == <<"a","m","b","i","e","n","t">>

\* keyword.lower() for every keyword of a table
lowered_table(cats) ==
  [c \in 1..Len(cats) |->
     [category |-> cats[c].category,
      keywords |-> [k \in 1..Len(cats[c].keywords) |-> str_lower(cats[c].keywords[k])]]]

AUDIO_CATEGORIES_lowered == lowered_table(AUDIO_CATEGORIES)

\* inner loop of categorize_file: does any keyword of the list (lowered) occur
\* in the lowered file name
RECURSIVE AnyKeywordIn(_, _, _)
AnyKeywordIn(keywords, k, lowered) ==
  IF k > Len(keywords) THEN FALSE
  ELSE IF str_contains(keywords[k], lowered) THEN TRUE
  ELSE AnyKeywordIn(keywords, k + 1, lowered)

\* outer loop of categorize_file over the (lowered) table `cats`, from entry c on
RECURSIVE ScanCategories(_, _, _)
ScanCategories(cats, c, lowered) ==
  IF c > Len(cats) THEN DefaultCategory
  ELSE IF AnyKeywordIn(cats[c].keywords, 1, lowered) THEN cats[c].category
  ELSE ScanCategories(cats, c + 1, lowered)

Reverse(seq) == [n \in 1..Len(seq) |-> seq[Len(seq) + 1 - n]]

\* the table walked from its last category to its first
categorize_file_reversed(filename) ==
  ScanCategories(Reverse(AUDIO_CATEGORIES_lowered), 1, str_lower(filename))

categorize_file(filename) ==
  ScanCategories(AUDIO_CATEGORIES_lowered, 1, str_lower(filename))

\* ------------------------------------------------------------------------
\* Paths
\* ------------------------------------------------------------------------
\* Path('public/assets/audio')
audio_dir == <<<<"p","u","b","l","i","c">>, <<"a","s","s","e","t","s">>, <<"a","u","d","i","o">>>>

\* Path('public/assets/audio/optimized')
output_dir == audio_dir \o <<<<"o","p","t","i","m","i","z","e","d">>>>

\* os.path.basename / Path.name: the last part
basename(path) == path[Len(path)]

\* position (1-based) of the last '.' of a name, 0 when there is none
RECURSIVE rfind_dot(_, _)
rfind_dot(name, i) ==
  IF i = 0 THEN 0 ELSE IF name[i] = "." THEN i ELSE rfind_dot(name, i - 1)

\* Path(...).stem: the name without its last suffix; a leading or a trailing dot
\* starts no suffix
path_stem(path) ==
  LET name == basename(path)
      d == rfind_dot(name, Len(name))
  IN  IF d > 1 /\ d < Len(name) THEN SubSeq(name, 1, d - 1) ELSE name

\* Path.relative_to(base), for a path below base
relative_to(path, base) == SubSeq(path, Len(base) + 1, Len(path))

\* str(path): the parts joined by '/'
RECURSIVE path_str(_)
path_str(path) ==
  IF Len(path) = 0 THEN <<>>
  ELSE IF Len(path) = 1 THEN path[1]
  ELSE path[1] \o <<"/">> \o path_str(Tail(path))

\* Path.__lt__: the parts compared as lists of str, code point by code point
RECURSIVE path_less(_, _)
path_less(p, q) ==
  IF q = <<>> THEN FALSE
  ELSE IF p = <<>> THEN TRUE
  ELSE IF Head(p) # Head(q) THEN str_less(Head(p), Head(q))
  ELSE path_less(Tail(p), Tail(q))

\* sorted(paths, reverse=True)
RECURSIVE sorted_paths_descending(_)
sorted_paths_descending(paths) ==
  IF paths = {} THEN <<>>
  ELSE LET m == CHOOSE p \in paths : \A q \in paths \ {p} : path_less(q, p)
       IN  <<m>> \o sorted_paths_descending(paths \ {m})

\* sorted(paths)
RECURSIVE sorted_paths(_)
sorted_paths(paths) ==
  IF paths = {} THEN <<>>
  ELSE LET m == CHOOSE p \in paths : \A q \in paths \ {p} : path_less(p, q)
       IN  <<m>> \o sorted_paths(paths \ {m})

\* path lies below the directory dir
is_below(path, dir) == Len(path) > Len(dir) /\ SubSeq(path, 1, Len(dir)) = dir

\* audio_dir.rglob('*' + suffix): the files at any depth below audio_dir
rglob(paths, suffix) ==
  {p \in paths : is_below(p, audio_dir) /\ str_endswith(basename(p), suffix)}

\* audio_dir.glob('*' + suffix), `paths` being the files that exist: only the
\* entries of audio_dir itself match
glob(paths, suffix) ==
  {p \in paths : /\ is_below(p, audio_dir)
                 /\ Len(p) = Len(audio_dir) + 1
                 /\ str_endswith(basename(p), suffix)}

\* ------------------------------------------------------------------------
\* The world outside the program: directory entries, ffprobe, ffmpeg
\* ------------------------------------------------------------------------
None == [none |-> TRUE]

\* entries the audio directory may hold
DirPool ==
  { <<"s","h","o","t","g","u","n","_","f","i","r","e",".","w","a","v">>,
    <<"r","a","n","d","o","m","_","c","l","a","n","g",".","w","a","v">>,
    <<"r","a","n","d","o","m","_","c","l","a","n","g",".","o","g","g">>,
    <<"F","a","s","t","_","w","h","o","o","s","h","_","s","o","u","n","d","_","#","1","-","v","2",".","w","a","v">>,
    <<"N","I","G","H","T","M","A","N","_","D","E","A","T","H","_","S","h","o","t","g","u","n","_","F","i","r","e",".","o","g","g">>,
    <<"d","o","o","r","_","c","r","e","a","k","_","p","l","a","y","e","r","_","d","e","a","t","h",".","w","a","v">>,
    <<"n","o","t","e","s",".","t","x","t">> }

\* what ffprobe and the filesystem answer for one file.  launched: the process
\* could be started; stdout: "unparsable" (not JSON, as the empty output of a
\* failed probe), "no_streams" (JSON without a non-empty streams list),
\* "bad_fields" (streams whose sample_rate or duration is not a number),
\* "streams"; stat_ok: os.path.getsize succeeds, with getsize the file size;
\* duration in milliseconds
ProbeResponses ==
  { [launched |-> FALSE, returncode |-> 1, stdout |-> "unparsable", stat_ok |-> TRUE, getsize |-> 1, duration |-> 0],
    [launched |-> TRUE, returncode |-> 1, stdout |-> "unparsable", stat_ok |-> TRUE, getsize |-> 1, duration |-> 0],
    [launched |-> TRUE, returncode |-> 1, stdout |-> "no_streams", stat_ok |-> TRUE, getsize |-> 1, duration |-> 0],
    [launched |-> TRUE, returncode |-> 0, stdout |-> "no_streams", stat_ok |-> TRUE, getsize |-> 2, duration |-> 0],
    [launched |-> TRUE, returncode |-> 0, stdout |-> "bad_fields", stat_ok |-> TRUE, getsize |-> 2, duration |-> 0],
    [launched |-> TRUE, returncode |-> 0, stdout |-> "streams", stat_ok |-> FALSE, getsize |-> 0, duration |-> 1500],
    [launched |-> TRUE, returncode |-> 0, stdout |-> "streams", stat_ok |-> TRUE, getsize |-> 1, duration |-> 0],
    [launched |-> TRUE, returncode |-> 0, stdout |-> "streams", stat_ok |-> TRUE, getsize |-> 2, duration |-> 1500] }

\* the probe gave no usable answer: the process did not start or exited
\* nonzero, its output has no stream or does not parse, or the size is unreadable
probe_failed(probe) ==
  \/ ~probe.launched
  \/ probe.returncode # 0
  \/ probe.stdout # "streams"
  \/ ~probe.stat_ok

\* what ffmpeg does for one file.  launched: the process could be started;
\* writes: it leaves an output file, of size written (a failed run may leave
\* none, or a truncated one)
EncoderResponses ==
  { [launched |-> FALSE, returncode |-> 1, writes |-> FALSE, written |-> 0],
    [launched |-> TRUE, returncode |-> 1, writes |-> FALSE, written |-> 0],
    [launched |-> TRUE, returncode |-> 1, writes |-> TRUE, written |-> 0],
    [launched |-> TRUE, returncode |-> 0, writes |-> TRUE, written |-> 1],
    [launched |-> TRUE, returncode |-> 0, writes |-> TRUE, written |-> 2] }

\* the encoder did not run to a zero exit
encoder_failed(enc) == ~enc.launched \/ enc.returncode # 0

\* ------------------------------------------------------------------------
\* analyze_audio_file, optimize_audio_file
\* ------------------------------------------------------------------------
\* as analyze_audio_file, but a dict of defaults where the output has no stream
analyze_audio_file_defaults(filepath, probe) ==
  IF ~probe.launched \/ probe.stdout = "unparsable" THEN None
  ELSE IF ~probe.stat_ok \/ probe.stdout = "bad_fields" THEN None
  ELSE [file |-> basename(filepath),
        size_kb |-> probe.getsize,
        duration |-> probe.duration]

\* the dict returned for a probed file, or None: on an exception (subprocess
\* cannot start, json.loads fails, int()/float() fail, getsize fails) and when
\* the probe output has no stream.  The return code is not read.
analyze_audio_file(filepath, probe) ==
  IF ~probe.launched \/ probe.stdout = "unparsable" THEN None
  ELSE IF probe.stdout = "no_streams" THEN None
  ELSE IF ~probe.stat_ok \/ probe.stdout = "bad_fields" THEN None
  ELSE [file |-> basename(filepath),
        size_kb |-> probe.getsize,
        duration |-> probe.duration]

\* the fields of a profile that optimize_audio_file reads
ProfileFields == {"channels", "sample_rate", "quality", "normalize"}

\* as optimize_audio_file, but the exit code is not read
optimize_audio_file_ignores_returncode(input_path, output_path, profile, enc) ==
  IF ~(ProfileFields \subseteq DOMAIN profile) THEN FALSE
  ELSE enc.launched

\* `except OSError`: the handler catches only the failure to start a process
CaughtOSErrorOnly == {"FileNotFoundError"}

\* `except Exception`: the exceptions of the try body that the handler catches
CaughtExceptions == {"KeyError", "FileNotFoundError"}

\* the try body: building cmd raises KeyError when the profile lacks a field
\* it reads, subprocess.run raises when ffmpeg cannot be started, otherwise
\* `return result.returncode == 0`
try_body(profile, enc) ==
  IF ~(ProfileFields \subseteq DOMAIN profile) THEN "KeyError"
  ELSE IF ~enc.launched THEN "FileNotFoundError"
  ELSE IF enc.returncode = 0 THEN "True"
  ELSE "False"

\* what a call gives its caller: "True", "False", or the name of an exception
\* the handler does not catch
call_optimize_audio_file(input_path, output_path, profile, enc) ==
  LET outcome == try_body(profile, enc)
  IN  IF outcome \in CaughtExceptions THEN "False" ELSE outcome

\* the return value of optimize_audio_file: False when building the command
\* raises (a profile field is missing), when the encoder cannot be started,
\* and when it exits nonzero
optimize_audio_file(input_path, output_path, profile, enc) ==
  call_optimize_audio_file(input_path, output_path, profile, enc) = "True"

\* the files below output_dir after the encoder ran on output_path
disk_after_encode(files, output_path, profile, enc) ==
  IF ProfileFields \subseteq DOMAIN profile /\ enc.launched /\ enc.writes
  THEN (output_path :> enc.written) @@ files
  ELSE files

\* ------------------------------------------------------------------------
\* generate_typescript_map
\* ------------------------------------------------------------------------
\* as clean_key, but '_#' is removed before the numbered markers
clean_key_reordered(original) ==
  LET k1 == str_remove(str_remove(original, <<".","w","a","v">>), <<".","o","g","g">>)
      k2 == str_remove(k1, <<"_","#">>)
  IN  str_remove(str_remove(str_remove(str_remove(k2, <<"#","1","-">>), <<"#","2","-">>), <<"#","3","-">>), <<"#","4","-">>)

\* the lookup key of one manifest entry
clean_key(original) ==
  LET k1 == str_remove(str_remove(original, <<".","w","a","v">>), <<".","o","g","g">>)
      k2 == str_remove(str_remove(str_remove(str_remove(k1, <<"#","1","-">>), <<"#","2","-">>), <<"#","3","-">>), <<"#","4","-">>)
  IN  str_remove(k2, <<"_","#">>)

\* the entries of files whose category is c, in their order
RECURSIVE files_of_category(_, _)
files_of_category(files, c) ==
  IF files = <<>> THEN <<>>
  ELSE IF Head(files).category = c THEN <<Head(files)>> \o files_of_category(Tail(files), c)
  ELSE files_of_category(Tail(files), c)

\* sorted(by_category.items()): the categories that occur, in str order
RECURSIVE sorted_strs(_)
sorted_strs(strs) ==
  IF strs = {} THEN <<>>
  ELSE LET m == CHOOSE s \in strs : \A t \in strs \ {s} : str_less(s, t)
       IN  <<m>> \o sorted_strs(strs \ {m})

\* the AUDIO_MAP record emitted for one entry under its category heading
ts_entry(file, category) ==
  [key |-> clean_key(file.original),
   path |-> <<"/","a","s","s","e","t","s","/","a","u","d","i","o","/">> \o file.optimized,
   category |-> category]

RECURSIVE ts_entries(_, _)
ts_entries(files, cats) ==
  IF cats = <<>> THEN <<>>
  ELSE LET group == files_of_category(files, Head(cats))
       IN  [n \in 1..Len(group) |-> ts_entry(group[n], Head(cats))]
             \o ts_entries(files, Tail(cats))

\* the AUDIO_MAP records of the generated file, in the order they are written
\* (the size fields of a record are not carried)
generate_typescript_map(files) ==
  ts_entries(files, sorted_strs({files[n].category : n \in 1..Len(files)}))

\* ------------------------------------------------------------------------
\* State
\* ------------------------------------------------------------------------
VARIABLES
  dir_files,          \* names of the entries of public/assets/audio
  disk,               \* files below optimized/: output path -> size
  pc,                 \* position of main(): start, analyze, optimize, summary,
                      \*   manifest, mapping, done, aborted
  error,              \* the exception that ended main(), or "none"
  audio_files,        \* sorted(audio_files), a sequence of paths
  idx,                \* position of the running for loop in its list
  analysis_results,   \* list of [filepath, info]
  total_size_before,
  total_size_after,
  optimized_files,    \* list of manifest entries
  manifest_file,      \* optimized/audio_manifest.json: None or the manifest
  ts_file,            \* src/audio/AudioMap.ts: None or its AUDIO_MAP records
  probe_failures,     \* paths whose probe failed (no usable ffprobe output or size)
  encode_failures,    \* input paths for which the encoder failed
  classified,         \* file names given to categorize_file
  encoded,            \* input paths given to optimize_audio_file, in call order
  run,                \* 1 in the first run of main() on the directory, 2 in the second
  first_run,          \* in the second run: inputs, outcomes and artifacts of the first
  name_arg,           \* a file name a caller classifies
  category_printed,   \* categorize_file(name) as the analysis loop prints it
  category_used,      \* categorize_file(name) as the optimization loop uses it
  sprite_pc,          \* create_audio_sprite_manifest: idle, loop, returned
  sprite_files,       \* its argument: list of [filepath, info]
  sprite_pos,         \* position of its for loop
  current_time,       \* its time cursor, in milliseconds
  spritemap,          \* manifest['spritemap']: stem -> [start, end, loop]
  sprite_created,     \* the entries the loop has created, in the order of creation
  call_profile,       \* optimize_audio_file: its argument profile
  call_enc,           \* what the encoder does when this call runs it
  call_outcome,       \* "True" or "False" it returns, or the exception it raises
  key_pc,             \* generate_typescript_map on one entry: idle, pending, emitted
  key_original,       \* the 'original' of that entry
  key_emitted         \* the AUDIO_MAP key it writes for that entry

main_vars ==
  <<dir_files, disk, pc, error, audio_files, idx, analysis_results,
    total_size_before, total_size_after, optimized_files, manifest_file,
    ts_file, probe_failures, encode_failures, classified, encoded, run, first_run>>

classify_vars == <<name_arg, category_printed, category_used>>

sprite_vars == <<sprite_pc, sprite_files, sprite_pos, current_time, spritemap, sprite_created>>

call_vars == <<call_profile, call_enc, call_outcome>>

key_vars == <<key_pc, key_original, key_emitted>>

vars == <<main_vars, classify_vars, sprite_vars, call_vars, key_vars>>

\* ------------------------------------------------------------------------
\* main()
\* ------------------------------------------------------------------------
EmptyDisk == [p \in {} |-> 0]

\* main() is entered in the directory `entries`
MainStarts(entries, position) ==
  /\ dir_files = entries
  /\ disk = EmptyDisk
  /\ pc = position
  /\ error = "none"
  /\ audio_files = <<>>
  /\ idx = 1
  /\ analysis_results = <<>>
  /\ total_size_before = 0
  /\ total_size_after = 0
  /\ optimized_files = <<>>
  /\ manifest_file = None
  /\ ts_file = None
  /\ probe_failures = {}
  /\ encode_failures = {}
  /\ classified = {}
  /\ encoded = <<>>
  /\ run = 1
  /\ first_run = None

\* the files that exist: the entries of the audio directory and what was
\* written below optimized/
existing_files == {audio_dir \o <<n>> : n \in dir_files} \cup DOMAIN disk

\* what ffprobe may answer for a file: anything in a first run; in a second
\* run, for a file of the first, what gives analyze_audio_file the same result
probes_for(filepath) ==
  IF run = 1 \/ filepath \notin DOMAIN first_run.info THEN ProbeResponses
  ELSE {probe \in ProbeResponses :
          analyze_audio_file(filepath, probe) = first_run.info[filepath]}

\* what ffmpeg may do for a file: anything in a first run; in a second run,
\* for a file of the first, it fails if it failed then, and leaves an output
\* of the same size if it succeeded then
encoders_for(filepath) ==
  IF run = 1 \/ filepath \notin DOMAIN first_run.size_after THEN EncoderResponses
  ELSE {enc \in EncoderResponses :
          IF first_run.size_after[filepath] = -1 THEN encoder_failed(enc)
          ELSE ~encoder_failed(enc) /\ enc.written = first_run.size_after[filepath]}

\* main() ends by an exception that nothing catches
Abort(exc) ==
  /\ pc' = "aborted"
  /\ error' = exc

\* output_dir.mkdir, the two globs, sorted(), the accumulators of the analysis
Setup ==
  /\ pc = "start"
  /\ \E mkdir_ok \in BOOLEAN :
       IF ~mkdir_ok
       THEN /\ Abort("OSError: output_dir.mkdir")
            /\ UNCHANGED <<audio_files, idx, analysis_results, total_size_before>>
       ELSE /\ audio_files' = sorted_paths(glob(existing_files, <<".","w","a","v">>)
                                             \cup glob(existing_files, <<".","o","g","g">>))
            /\ idx' = 1
            /\ analysis_results' = <<>>
            /\ total_size_before' = 0
            /\ pc' = "analyze"
            /\ UNCHANGED error
  /\ UNCHANGED <<dir_files, disk, total_size_after, optimized_files, manifest_file,
                 ts_file, probe_failures, encode_failures, classified, encoded,
                 run, first_run, classify_vars, sprite_vars, call_vars, key_vars>>

\* one iteration of `for filepath in sorted(audio_files)`
AnalyzeFile ==
  /\ pc = "analyze"
  /\ idx <= Len(audio_files)
  /\ \E probe \in probes_for(audio_files[idx]) :
       LET filepath == audio_files[idx]
           info == analyze_audio_file(filepath, probe)
       IN
       /\ IF info # None
           THEN /\ analysis_results' = Append(analysis_results, [filepath |-> filepath, info |-> info])
                /\ total_size_before' = total_size_before + info.size_kb
                /\ classified' = classified \cup {info.file}
           ELSE UNCHANGED <<analysis_results, total_size_before, classified>>
       /\ probe_failures' = IF probe_failed(probe) THEN probe_failures \cup {filepath}
                            ELSE probe_failures
  /\ idx' = idx + 1
  /\ UNCHANGED <<dir_files, disk, pc, error, audio_files, total_size_after,
                 optimized_files, manifest_file, ts_file, encode_failures, encoded,
                 run, first_run, classify_vars, sprite_vars, call_vars, key_vars>>

\* the analysis loop is over: its totals are printed, the accumulators of the
\* optimization are set
StartOptimizing ==
  /\ pc = "analyze"
  /\ idx > Len(audio_files)
  /\ total_size_after' = 0
  /\ optimized_files' = <<>>
  /\ idx' = 1
  /\ pc' = "optimize"
  /\ UNCHANGED <<dir_files, disk, error, audio_files, analysis_results,
                 total_size_before, manifest_file, ts_file, probe_failures, encode_failures,
                 classified, encoded,
                 run, first_run, classify_vars, sprite_vars, call_vars, key_vars>>

\* the manifest entry appended for a file the encoder succeeded on
manifest_entry(info, output_path, category, optimized_size) ==
  [original |-> info.file,
   optimized |-> path_str(relative_to(output_path, audio_dir)),
   category |-> category,
   size_before |-> info.size_kb,
   size_after |-> optimized_size]

\* total_size_after = optimized_size
add_size_assign(total, optimized_size) == optimized_size

\* total_size_after += optimized_size
add_size(total, optimized_size) == total + optimized_size

\* one iteration of `for filepath, info in analysis_results`
OptimizeFile ==
  /\ pc = "optimize"
  /\ idx <= Len(analysis_results)
  /\ LET filepath == analysis_results[idx].filepath
         info == analysis_results[idx].info
         category == categorize_file(info.file)
     IN  /\ classified' = classified \cup {info.file}
         /\ IF category \notin DOMAIN OPTIMIZATION_PROFILES
            THEN /\ Abort("KeyError: OPTIMIZATION_PROFILES[category]")
                 /\ UNCHANGED <<disk, idx, total_size_after, optimized_files, encoded, encode_failures>>
            ELSE \E enc \in encoders_for(filepath), mkdir_ok \in BOOLEAN :
                   LET profile == OPTIMIZATION_PROFILES[category]
                       output_filename == path_stem(filepath) \o <<".","o","g","g">>
                       output_path == output_dir \o <<category, output_filename>>
                   IN  IF ~mkdir_ok
                       THEN /\ Abort("OSError: output_path.parent.mkdir")
                            /\ UNCHANGED <<disk, idx, total_size_after, optimized_files, encoded, encode_failures>>
                       ELSE /\ encoded' = Append(encoded, filepath)
                            /\ encode_failures' = IF encoder_failed(enc)
                                                  THEN encode_failures \cup {filepath}
                                                  ELSE encode_failures
                            /\ disk' = disk_after_encode(disk, output_path, profile, enc)
                            /\ IF call_optimize_audio_file(filepath, output_path, profile, enc)
                                    \notin {"True", "False"}
                               THEN /\ Abort(call_optimize_audio_file(filepath, output_path, profile, enc))
                                    /\ UNCHANGED <<idx, total_size_after, optimized_files>>
                               ELSE IF optimize_audio_file(filepath, output_path, profile, enc)
                               THEN IF output_path \notin DOMAIN disk'
                                    THEN /\ Abort("OSError: getsize(output_path)")
                                         /\ UNCHANGED <<idx, total_size_after, optimized_files>>
                                    ELSE IF info.size_kb = 0
                                    THEN /\ Abort("ZeroDivisionError: optimized_size / size_kb")
                                         /\ total_size_after' = add_size(total_size_after, disk'[output_path])
                                         /\ UNCHANGED <<idx, optimized_files>>
                                    ELSE /\ total_size_after' = add_size(total_size_after, disk'[output_path])
                                         /\ optimized_files' =
                                              Append(optimized_files,
                                                     manifest_entry(info, output_path, category, disk'[output_path]))
                                         /\ idx' = idx + 1
                                         /\ UNCHANGED <<pc, error>>
                               ELSE /\ idx' = idx + 1
                                    /\ UNCHANGED <<pc, error, total_size_after, optimized_files>>
  /\ UNCHANGED <<dir_files, audio_files, analysis_results, total_size_before,
                 manifest_file, ts_file, probe_failures,
                 run, first_run, classify_vars, sprite_vars, call_vars, key_vars>>

\* the optimization loop is over: the results are printed, with the share of the
\* size saved, (1 - total_size_after/total_size_before)*100
PrintResults ==
  /\ pc = "optimize"
  /\ idx > Len(analysis_results)
  /\ IF total_size_before = 0
     THEN Abort("ZeroDivisionError: total_size_after / total_size_before")
     ELSE /\ pc' = "manifest"
          /\ UNCHANGED error
  /\ UNCHANGED <<dir_files, disk, audio_files, idx, analysis_results, total_size_before,
                 total_size_after, optimized_files, manifest_file, ts_file, probe_failures,
                 encode_failures, classified, encoded,
                 run, first_run, classify_vars, sprite_vars, call_vars, key_vars>>

\* the manifest dict (its 'categories' entry is the keyword table itself)
make_manifest(files, total) ==
  [version |-> "1.0",
   files |-> files,
   total_files |-> Len(files),
   total_size_kb |-> total]

\* the manifest is built and written to optimized/audio_manifest.json
WriteManifest ==
  /\ pc = "manifest"
  /\ \E open_ok \in BOOLEAN :
       IF ~open_ok
       THEN /\ Abort("OSError: open(manifest_path)")
            /\ UNCHANGED manifest_file
       ELSE /\ manifest_file' = make_manifest(optimized_files, total_size_after)
            /\ pc' = "mapping"
            /\ UNCHANGED error
  /\ UNCHANGED <<dir_files, disk, audio_files, idx, analysis_results, total_size_before,
                 total_size_after, optimized_files, ts_file, probe_failures, encode_failures,
                 classified, encoded,
                 run, first_run, classify_vars, sprite_vars, call_vars, key_vars>>

\* the TypeScript map is generated and written to src/audio/AudioMap.ts
WriteMapping ==
  /\ pc = "mapping"
  /\ \E open_ok \in BOOLEAN :
       IF ~open_ok
       THEN /\ Abort("OSError: open(ts_path)")
            /\ UNCHANGED ts_file
       ELSE /\ ts_file' = generate_typescript_map(optimized_files)
            /\ pc' = "done"
            /\ UNCHANGED error
  /\ UNCHANGED <<dir_files, disk, audio_files, idx, analysis_results, total_size_before,
                 total_size_after, optimized_files, manifest_file, probe_failures, encode_failures,
                 classified, encoded,
                 run, first_run, classify_vars, sprite_vars, call_vars, key_vars>>

\* the result analyze_audio_file gave for a path in the run that has ended
info_of(filepath) ==
  IF \E n \in 1..Len(analysis_results) : analysis_results[n].filepath = filepath
  THEN analysis_results[CHOOSE n \in 1..Len(analysis_results) :
                          analysis_results[n].filepath = filepath].info
  ELSE None

\* the size of the output the encoder left for a path in the run that has
\* ended; -1 if it failed
size_after_of(filepath) ==
  IF filepath \in encode_failures THEN -1
  ELSE optimized_files[CHOOSE n \in 1..Len(optimized_files) :
                         optimized_files[n].original = basename(filepath)].size_after

\* main() has returned and is started again on the same directory: the files
\* and the two artifacts are as the first run left them
Rerun ==
  /\ pc = "done"
  /\ run = 1
  /\ run' = 2
  /\ first_run' =
       [audio_files |-> audio_files,
        info |-> [p \in Range(audio_files) |-> info_of(p)],
        size_after |-> [p \in Range(encoded) |-> size_after_of(p)],
        manifest |-> manifest_file,
        ts |-> ts_file]
  /\ pc' = "start"
  /\ audio_files' = <<>>
  /\ idx' = 1
  /\ analysis_results' = <<>>
  /\ total_size_before' = 0
  /\ total_size_after' = 0
  /\ optimized_files' = <<>>
  /\ probe_failures' = {}
  /\ encode_failures' = {}
  /\ classified' = {}
  /\ encoded' = <<>>
  /\ UNCHANGED <<dir_files, disk, error, manifest_file, ts_file,
                 classify_vars, sprite_vars, call_vars, key_vars>>

MainInit ==
  \E entries \in {S \in SUBSET DirPool : Cardinality(S) <= MaxFiles} :
    MainStarts(entries, "start")

MainIdle == MainStarts({}, "idle")

\* ------------------------------------------------------------------------
\* The two calls of categorize_file that main() makes for one file name
\* ------------------------------------------------------------------------
\* pieces file names are put together from
Fragments ==
  { <<"s","h","o","t","g","u","n","_">>, <<"f","i","r","e">>, <<"N","I","G","H","T","M","A","N","_","D","e","a","t","h">>, <<"d","o","o","r","_","c","r","e","a","k">>, <<"P","l","a","y","e","r","_","D","e","a","t","h">>,
    <<"w","o","o","d","_","p","i","c","k","u","p">>, <<"w","i","n","d","_","t","r","e","e","s">>, <<"c","l","a","n","g">>, <<".","w","a","v">> }

\* the names made of at most n fragments
RECURSIVE NamesUpTo(_)
NamesUpTo(n) ==
  IF n = 0 THEN {<<>>}
  ELSE LET shorter == NamesUpTo(n - 1)
       IN  shorter \cup {a \o f : a \in shorter, f \in Fragments}

\* no category computed yet
NoCategory == <<>>

ClassifyIdle ==
  /\ name_arg = <<>>
  /\ category_printed = NoCategory
  /\ category_used = NoCategory

ClassifyInit ==
  /\ name_arg \in NamesUpTo(MaxFragments)
  /\ category_printed = NoCategory
  /\ category_used = NoCategory

\* category = categorize_file(info['file']) of the analysis loop
ClassifyInAnalysis ==
  /\ category_printed = NoCategory
  /\ category_printed' = categorize_file(name_arg)
  /\ UNCHANGED <<name_arg, category_used, main_vars, sprite_vars, call_vars, key_vars>>

\* category = categorize_file(info['file']) of the optimization loop
ClassifyInOptimization ==
  /\ category_printed # NoCategory
  /\ category_used = NoCategory
  /\ category_used' = categorize_file(name_arg)
  /\ UNCHANGED <<name_arg, category_printed, main_vars, sprite_vars, call_vars, key_vars>>

\* ------------------------------------------------------------------------
\* create_audio_sprite_manifest
\* ------------------------------------------------------------------------
\* the 100 ms of padding after every clip
padding_ms == 100

\* paths and infos the lists given to the function are made of
SpritePaths ==
  { audio_dir \o <<<<"a",".","w","a","v">>>>, audio_dir \o <<<<"a",".","o","g","g">>>>,
    audio_dir \o <<<<"b",".","w","a","v">>>>, audio_dir \o <<<<"c",".","v","2",".","o","g","g">>>> }

SpriteDurations == {-500, 0, 1000, 2000, 3500}

SpriteInfos(path) ==
  {None} \cup {[file |-> basename(path), size_kb |-> 1, duration |-> d] : d \in SpriteDurations}

SpritePairs ==
  UNION {{[filepath |-> p, info |-> i] : i \in SpriteInfos(p)} : p \in SpritePaths}

\* lists of at most n pairs, no path twice
SpriteLists(n) ==
  UNION {{l \in [1..m -> SpritePairs] :
            \A a, b \in 1..m : a # b => l[a].filepath # l[b].filepath} : m \in 0..n}

EmptySpritemap == [s \in {} |-> 0]

SpriteIdle ==
  /\ sprite_pc = "idle"
  /\ sprite_files = <<>>
  /\ sprite_pos = 1
  /\ current_time = 0
  /\ spritemap = EmptySpritemap
  /\ sprite_created = <<>>

\* the function is entered: manifest and cursor are set
SpriteInit ==
  /\ sprite_pc = "loop"
  /\ sprite_files \in SpriteLists(MaxSprites)
  /\ sprite_pos = 1
  /\ current_time = 0
  /\ spritemap = EmptySpritemap
  /\ sprite_created = <<>>

\* `if info and info['duration'] >= 0`
has_duration(info) == info # None /\ info.duration >= 0

\* `if info and info['duration'] > 0`
has_positive_duration(info) == info # None /\ info.duration > 0

\* the spritemap entry written for a clip of the given duration
sprite_entry(cursor, duration) ==
  [start |-> cursor, end |-> cursor + duration, loop |-> FALSE]

\* current_time += info['duration'] + 0.1
advance_cursor(cursor, duration) == cursor + duration + padding_ms

\* one iteration of `for filepath, info in files`
SpriteStep ==
  /\ sprite_pc = "loop"
  /\ sprite_pos <= Len(sprite_files)
  /\ LET filepath == sprite_files[sprite_pos].filepath
         info == sprite_files[sprite_pos].info
     IN  IF has_positive_duration(info)
         THEN /\ spritemap' = (path_stem(filepath) :> sprite_entry(current_time, info.duration))
                                @@ spritemap
              /\ current_time' = advance_cursor(current_time, info.duration)
              /\ sprite_created' = Append(sprite_created, sprite_entry(current_time, info.duration))
         ELSE UNCHANGED <<spritemap, current_time, sprite_created>>
  /\ sprite_pos' = sprite_pos + 1
  /\ UNCHANGED <<sprite_pc, sprite_files, main_vars, classify_vars, call_vars, key_vars>>

\* return manifest
SpriteReturn ==
  /\ sprite_pc = "loop"
  /\ sprite_pos > Len(sprite_files)
  /\ sprite_pc' = "returned"
  /\ UNCHANGED <<sprite_files, sprite_pos, current_time, spritemap, sprite_created,
                 main_vars, classify_vars, call_vars, key_vars>>

\* ------------------------------------------------------------------------
\* One call of optimize_audio_file
\* ------------------------------------------------------------------------
\* a profile without one of its fields
without_field(profile, field) == [k \in DOMAIN profile \ {field} |-> profile[k]]

\* the profiles of the table, and the same with one field missing
ProfilePool ==
  LET complete == {OPTIMIZATION_PROFILES[c] : c \in DOMAIN OPTIMIZATION_PROFILES}
  IN  complete \cup {without_field(p, f) : p \in complete, f \in ProfileFields}

CallIdle ==
  /\ call_profile = None
  /\ call_enc = None
  /\ call_outcome = "not called"

CallInit ==
  /\ call_profile \in ProfilePool
  /\ call_enc \in EncoderResponses
  /\ call_outcome = "not called"

\* success = optimize_audio_file(input_path, output_path, profile)
CallOptimize ==
  /\ call_profile # None
  /\ call_outcome = "not called"
  /\ call_outcome' =
       call_optimize_audio_file(audio_dir \o <<<<"a",".","w","a","v">>>>,
                                output_dir \o <<<<"a","m","b","i","e","n","t">>, <<"a",".","o","g","g">>>>,
                                call_profile, call_enc)
  /\ UNCHANGED <<call_profile, call_enc, main_vars, classify_vars, sprite_vars, key_vars>>

\* ------------------------------------------------------------------------
\* The key generate_typescript_map writes for one entry
\* ------------------------------------------------------------------------
\* pieces the names are put together from
KeyFragments ==
  { <<"a">>, <<"#","1","-">>, <<"#","5","-">>, <<"_","#">>, <<".","w","a","v">>, <<".","o","g","g">>, <<"#">>, <<"1","-">> }

\* the names made of at least one and at most n fragments
RECURSIVE KeyNames(_)
KeyNames(n) ==
  IF n = 1 THEN KeyFragments
  ELSE LET shorter == KeyNames(n - 1)
       IN  shorter \cup {a \o f : a \in shorter, f \in KeyFragments}

KeyIdle ==
  /\ key_pc = "idle"
  /\ key_original = <<>>
  /\ key_emitted = <<>>

KeyInit ==
  /\ key_pc = "pending"
  /\ key_original \in KeyNames(MaxKeyFragments)
  /\ key_emitted = <<>>

\* generate_typescript_map(optimized_files) on the one entry main() appends for
\* a file of that name
EmitKey ==
  /\ key_pc = "pending"
  /\ LET category == categorize_file(key_original)
         output_path == output_dir \o <<category, path_stem(audio_dir \o <<key_original>>) \o <<".","o","g","g">>>>
         info == [file |-> key_original, size_kb |-> 1, duration |-> 0]
         entry == manifest_entry(info, output_path, category, 1)
     IN  key_emitted' = generate_typescript_map(<<entry>>)[1].key
  /\ key_pc' = "emitted"
  /\ UNCHANGED <<key_original, main_vars, classify_vars, sprite_vars, call_vars>>

\* ------------------------------------------------------------------------
\* Specifications
\* ------------------------------------------------------------------------
\* a run of main()
Init == MainInit /\ ClassifyIdle /\ SpriteIdle /\ CallIdle /\ KeyIdle

Next ==
  \/ Setup
  \/ AnalyzeFile
  \/ StartOptimizing
  \/ OptimizeFile
  \/ PrintResults
  \/ WriteManifest
  \/ WriteMapping

Spec == Init /\ [][Next]_vars

\* a run of main() and a second run on the same directory
RerunNext ==
  \/ Setup
  \/ AnalyzeFile
  \/ StartOptimizing
  \/ OptimizeFile
  \/ PrintResults
  \/ WriteManifest
  \/ WriteMapping
  \/ Rerun

RerunSpec == Init /\ [][RerunNext]_vars

\* the classification of one file name
ClassifySpecInit == MainIdle /\ ClassifyInit /\ SpriteIdle /\ CallIdle /\ KeyIdle

ClassifyNext ==
  \/ ClassifyInAnalysis
  \/ ClassifyInOptimization

ClassifySpec == ClassifySpecInit /\ [][ClassifyNext]_vars

\* a call of create_audio_sprite_manifest
SpriteSpecInit == MainIdle /\ ClassifyIdle /\ SpriteInit /\ CallIdle /\ KeyIdle

SpriteNext ==
  \/ SpriteStep
  \/ SpriteReturn

SpriteSpec == SpriteSpecInit /\ [][SpriteNext]_vars

\* a call of optimize_audio_file
CallSpecInit == MainIdle /\ ClassifyIdle /\ SpriteIdle /\ CallInit /\ KeyIdle

CallNext == CallOptimize

CallSpec == CallSpecInit /\ [][CallNext]_vars

\* the key of one entry of the generated mapping
KeySpecInit == MainIdle /\ ClassifyIdle /\ SpriteIdle /\ CallIdle /\ KeyInit

KeyNext == EmitKey

KeySpec == KeySpecInit /\ [][KeyNext]_vars

\* ------------------------------------------------------------------------
\* Properties of categorize_file
\* ------------------------------------------------------------------------
\* two characters that are equal up to the case of an ASCII letter
same_letter(a, b) ==
  \/ a = b
  \/ /\ Ord[a] >= 65 /\ Ord[a] <= 90 /\ Ord[b] = Ord[a] + 32
  \/ /\ Ord[b] >= 65 /\ Ord[b] <= 90 /\ Ord[a] = Ord[b] + 32

\* keyword occurs in name as a case-insensitive substring
occurs_in(keyword, name) ==
  \E at \in 0..(Len(name) - Len(keyword)) :
    \A n \in 1..Len(keyword) : same_letter(keyword[n], name[at + n])

\* positions in the declared order of the categories with a keyword in name
matching_categories(name) ==
  {c \in 1..Len(AUDIO_CATEGORIES) :
     \E k \in 1..Len(AUDIO_CATEGORIES[c].keywords) :
       occurs_in(AUDIO_CATEGORIES[c].keywords[k], name)}

\* C2: categorize_file returns the earliest category, in the declared order
\* combat, nightman, transformation, environment, items, player, ambient, that
\* has a keyword occurring in the file name as a case-insensitive substring.
C2_FirstMatchWins ==
  category_printed # NoCategory =>
    LET hits == matching_categories(name_arg)
    IN  hits # {} =>
          \E c \in hits :
            /\ \A d \in hits : c <= d
            /\ category_printed = AUDIO_CATEGORIES[c].category

\* a name with keywords of two categories has been classified
C2_Witness ==
  /\ category_printed # NoCategory
  /\ Cardinality(matching_categories(name_arg)) >= 2

\* C3: categorize_file yields a category of the registry for every file name,
\* the empty one included; 'ambient' when no keyword occurs in the name; and
\* the call of the optimization loop yields what the call of the analysis loop
\* yielded.
C3_TotalDefaultAmbient ==
  /\ category_printed # NoCategory =>
       /\ category_printed \in Categories
       /\ matching_categories(name_arg) = {} => category_printed = <<"a","m","b","i","e","n","t">>
  /\ category_used # NoCategory =>
       /\ category_used \in Categories
       /\ category_used = category_printed

\* the empty name has been classified twice, as ambient
C3_Witness ==
  /\ name_arg = <<>>
  /\ category_printed = <<"a","m","b","i","e","n","t">>
  /\ category_used = <<"a","m","b","i","e","n","t">>

\* ------------------------------------------------------------------------
\* Properties of main()
\* ------------------------------------------------------------------------
\* the exceptions of the steps that create the output directories and open the
\* two artifacts for writing
WriteErrors ==
  { "OSError: output_dir.mkdir", "OSError: output_path.parent.mkdir",
    "OSError: open(manifest_path)", "OSError: open(ts_path)" }

\* C1: whatever the input files and whichever probes and encodes fail, main()
\* is ended by no exception other than one of creating the output directories
\* or opening the manifest and the mapping file for writing.
C1_PerFileErrorsNeverAbort ==
  pc = "aborted" => error \in WriteErrors

\* C4: the keyword table and the profile table have the same categories as
\* keys, and the profile lookup of the optimization loop never fails.
C4_ProfileCompleteness ==
  /\ DOMAIN OPTIMIZATION_PROFILES = Categories
  /\ error # "KeyError: OPTIMIZATION_PROFILES[category]"
  /\ \A n \in 1..Len(optimized_files) :
       optimized_files[n].category \in DOMAIN OPTIMIZATION_PROFILES

\* a file that no keyword matches has been encoded with the ambient profile
C4_Witness ==
  \E n \in 1..Len(optimized_files) :
    /\ optimized_files[n].original = <<"r","a","n","d","o","m","_","c","l","a","n","g",".","w","a","v">>
    /\ optimized_files[n].category = <<"a","m","b","i","e","n","t">>

RECURSIVE sum_size_after(_)
sum_size_after(files) ==
  IF files = <<>> THEN 0 ELSE Head(files).size_after + sum_size_after(Tail(files))

\* C5: while and after the optimization loop runs, total_size_after is the sum
\* of size_after over optimized_files; the written manifest has total_size_kb
\* equal to the sum of size_after over its files and total_files equal to the
\* number of its files.
C5_ManifestTotal ==
  /\ pc \in {"optimize", "manifest", "mapping", "done"} =>
       total_size_after = sum_size_after(optimized_files)
  /\ manifest_file # None =>
       /\ manifest_file.total_size_kb = sum_size_after(manifest_file.files)
       /\ manifest_file.total_files = Len(manifest_file.files)

\* a manifest of two files of different sizes has been written
C5_Witness ==
  /\ manifest_file # None
  /\ Len(manifest_file.files) = 2
  /\ manifest_file.files[1].size_after # manifest_file.files[2].size_after

\* the manifest entries whose original is the name of path
entries_of(files, path) ==
  {n \in 1..Len(files) : files[n].original = basename(path)}

\* the sizes of the outputs of the encodes that succeeded, summed in call order
RECURSIVE sum_succeeded(_, _)
sum_succeeded(inputs, files) ==
  IF inputs = <<>> THEN 0
  ELSE IF Head(inputs) \in encode_failures THEN sum_succeeded(Tail(inputs), files)
  ELSE LET n == CHOOSE m \in 1..Len(files) : files[m].original = basename(Head(inputs))
       IN  files[n].size_after + sum_succeeded(Tail(inputs), files)

\* C6: a file the encoder failed on has no entry in optimized_files nor in the
\* written manifest and adds nothing to the total and the count; the encoder
\* is called for every analysed file, in order, whatever failed before.
C6_TranscodeFailureIsolation ==
  /\ \A path \in encode_failures :
       /\ entries_of(optimized_files, path) = {}
       /\ manifest_file # None => entries_of(manifest_file.files, path) = {}
  /\ pc \in {"optimize", "manifest", "mapping", "done"} =>
       /\ Len(optimized_files) = Len(encoded) - Cardinality(encode_failures)
       /\ total_size_after = sum_succeeded(encoded, optimized_files)
  /\ pc = "optimize" =>
       encoded = [n \in 1..(idx - 1) |-> analysis_results[n].filepath]
  /\ pc \in {"manifest", "mapping", "done"} =>
       encoded = [n \in 1..Len(analysis_results) |-> analysis_results[n].filepath]

\* the encoder failed on the first file, and the second is in the written manifest
C6_Witness ==
  /\ pc = "done"
  /\ Len(encoded) = 2
  /\ encoded[1] \in encode_failures
  /\ entries_of(manifest_file.files, encoded[2]) # {}

RECURSIVE sum_size_before(_)
sum_size_before(results) ==
  IF results = <<>> THEN 0
  ELSE Head(results).info.size_kb + sum_size_before(Tail(results))

C9_SpriteMapBuilt ==
  pc = "done" =>
    /\ sprite_pc = "returned"
    /\ \A n \in 1..Len(analysis_results) :
         analysis_results[n].info.duration > 0 =>
           path_stem(analysis_results[n].filepath) \in DOMAIN spritemap

\* the AUDIO_MAP record written for a manifest entry has this key
key_emitted_for(file, key) ==
  \E m \in 1..Len(ts_file) :
    /\ ts_file[m].path = <<"/","a","s","s","e","t","s","/","a","u","d","i","o","/">> \o file.optimized
    /\ ts_file[m].key = key

\* C10 as stated: the key emitted for Fast_whoosh_sound_#1-v2.wav is
\* Fast_whoosh_sound-v2.
C10_KeyAsStated ==
  pc = "done" =>
    \A n \in 1..Len(optimized_files) :
      optimized_files[n].original = <<"F","a","s","t","_","w","h","o","o","s","h","_","s","o","u","n","d","_","#","1","-","v","2",".","w","a","v">> =>
        key_emitted_for(optimized_files[n], <<"F","a","s","t","_","w","h","o","o","s","h","_","s","o","u","n","d","-","v","2">>)

\* C10: the key emitted for Fast_whoosh_sound_#1-v2.wav is
\* Fast_whoosh_sound_v2: the extension and the marker '#1-' are removed, the
\* underscore before the marker stays.
C10_KeySanitized ==
  pc = "done" =>
    \A n \in 1..Len(optimized_files) :
      optimized_files[n].original = <<"F","a","s","t","_","w","h","o","o","s","h","_","s","o","u","n","d","_","#","1","-","v","2",".","w","a","v">> =>
        /\ key_emitted_for(optimized_files[n], <<"F","a","s","t","_","w","h","o","o","s","h","_","s","o","u","n","d","_","v","2">>)
        /\ \A m \in 1..Len(ts_file) :
             ts_file[m].path = <<"/","a","s","s","e","t","s","/","a","u","d","i","o","/">> \o optimized_files[n].optimized =>
               ts_file[m].key = <<"F","a","s","t","_","w","h","o","o","s","h","_","s","o","u","n","d","_","v","2">>

\* the mapping file has been written with a record for Fast_whoosh_sound_#1-v2.wav
C10_Witness ==
  /\ pc = "done"
  /\ \E n \in 1..Len(optimized_files) :
       optimized_files[n].original = <<"F","a","s","t","_","w","h","o","o","s","h","_","s","o","u","n","d","_","#","1","-","v","2",".","w","a","v">>

\* the paths of a list that are in neither set, in the order of the list
RECURSIVE surviving(_, _, _)
surviving(paths, lost_a, lost_b) ==
  IF paths = <<>> THEN <<>>
  ELSE IF Head(paths) \in lost_a \cup lost_b THEN surviving(Tail(paths), lost_a, lost_b)
  ELSE <<Head(paths)>> \o surviving(Tail(paths), lost_a, lost_b)

\* the name of a path without the extension after its last dot
name_without_extension(name) ==
  IF \E d \in 2..(Len(name) - 1) : name[d] = "."
  THEN LET d == CHOOSE e \in 2..(Len(name) - 1) :
                  name[e] = "." /\ \A g \in (e + 1)..(Len(name) - 1) : name[g] # "."
       IN  SubSeq(name, 1, d - 1)
  ELSE name

\* C13: the files of the written manifest are the inputs whose probe and whose
\* encode succeeded, once each, in the sorted order of their paths, each with
\* the category categorize_file gives its name and the optimized path
\* optimized/<category>/<stem>.ogg; and no input is given to the encoder twice.
C13_ManifestMembershipAndOrder ==
  /\ \A a, b \in 1..Len(audio_files) :
       a < b => str_less(basename(audio_files[a]), basename(audio_files[b]))
  /\ \A a, b \in 1..Len(encoded) : a # b => encoded[a] # encoded[b]
  /\ manifest_file # None =>
       LET kept == surviving(audio_files, probe_failures, encode_failures)
           files == manifest_file.files
       IN  /\ Len(files) = Len(kept)
           /\ \A n \in 1..Len(files) :
                /\ files[n].original = basename(kept[n])
                /\ files[n].category = categorize_file(basename(kept[n]))
                /\ files[n].optimized =
                     <<"o","p","t","i","m","i","z","e","d","/">> \o files[n].category \o <<"/">>
                       \o name_without_extension(basename(kept[n])) \o <<".","o","g","g">>

\* a manifest is written for two inputs: the probe or the encode of the first
\* failed, and the second is the only entry
C13_Witness ==
  /\ manifest_file # None
  /\ Len(audio_files) = 2
  /\ Len(manifest_file.files) = 1
  /\ audio_files[1] \in probe_failures \cup encode_failures
  /\ manifest_file.files[1].original = basename(audio_files[2])

\* C16: two entries of the written manifest never have the same optimized
\* path, and the size_after of every entry is the size of the file at its
\* path when the manifest is written.
C16_OutputPathsUnique ==
  manifest_file # None =>
    LET files == manifest_file.files
    IN  /\ \A a, b \in 1..Len(files) : a # b => files[a].optimized # files[b].optimized
        /\ \A n \in 1..Len(files) :
             \E p \in DOMAIN disk :
               /\ path_str(relative_to(p, audio_dir)) = files[n].optimized
               /\ disk[p] = files[n].size_after

\* ------------------------------------------------------------------------
\* Properties of create_audio_sprite_manifest
\* ------------------------------------------------------------------------
\* the sum of the durations of the first n pairs
RECURSIVE sum_durations(_, _)
sum_durations(files, n) ==
  IF n = 0 THEN 0 ELSE files[n].info.duration + sum_durations(files, n - 1)

all_positive(files) ==
  \A n \in 1..Len(files) : files[n].info # None /\ files[n].info.duration > 0

\* the entry of asset n of the list is in the map, at its place of the timeline
entry_in_place(files, n) ==
  LET stem == path_stem(files[n].filepath)
      start == sum_durations(files, n - 1) + padding_ms * (n - 1)
  IN  /\ stem \in DOMAIN spritemap
      /\ spritemap[stem].start = start
      /\ spritemap[stem].end = start + files[n].info.duration

\* C8: for every list of assets with positive durations d1..dn, the returned
\* map has for every asset i an entry from sum(d1..d(i-1)) + 0.1*(i-1) to that
\* plus di, also when paths of the list share a stem.
C8_SpriteTimeline ==
  (sprite_pc = "returned" /\ all_positive(sprite_files)) =>
    \A n \in 1..Len(sprite_files) : entry_in_place(sprite_files, n)

\* ------------------------------------------------------------------------
\* Properties of a second run
\* ------------------------------------------------------------------------
\* C11: a second run of main() on the same directory, in which the probe and
\* the encoder give each file the outcome of the first run, takes the same
\* input files, none of them from below optimized/, and leaves the manifest
\* and the mapping file as the first run wrote them: each is written anew,
\* with the same content.
C11_RerunIdempotent ==
  run = 2 =>
    /\ pc \in {"analyze", "optimize", "manifest", "mapping", "done"} =>
         /\ audio_files = first_run.audio_files
         /\ \A n \in 1..Len(audio_files) :
              SubSeq(audio_files[n], 1, Len(audio_files[n]) - 1) = audio_dir
    /\ manifest_file = first_run.manifest
    /\ ts_file = first_run.ts

\* the second run has ended as the first, with an entry in the manifest, a
\* file whose encode failed, and the output of the first run on the disk
C11_Witness ==
  /\ run = 2
  /\ pc = "done"
  /\ Len(manifest_file.files) = 1
  /\ encode_failures # {}
  /\ Len(ts_file) = 1
  /\ DOMAIN disk # {}

\* ------------------------------------------------------------------------
\* Properties of optimize_audio_file
\* ------------------------------------------------------------------------
\* C12: a call of optimize_audio_file ends by returning True or False, never
\* by an exception: True exactly when the profile has the fields the command
\* is built from, ffmpeg could be started and it exited with code 0; False
\* when it exited nonzero, when it could not be started and when a profile
\* field is missing.
C12_FailureIsAReturnValue ==
  call_outcome # "not called" =>
    /\ call_outcome \in {"True", "False"}
    /\ call_outcome = "True" <=>
         /\ \A f \in {"channels", "sample_rate", "quality", "normalize"} : f \in DOMAIN call_profile
         /\ call_enc.launched
         /\ call_enc.returncode = 0

\* False was returned for a profile without 'normalize', although ffmpeg was
\* there and would have exited with 0
C12_Witness ==
  /\ call_outcome = "False"
  /\ "normalize" \notin DOMAIN call_profile
  /\ "quality" \in DOMAIN call_profile
  /\ call_enc.launched
  /\ call_enc.returncode = 0

\* ------------------------------------------------------------------------
\* Properties of the keys of generate_typescript_map
\* ------------------------------------------------------------------------
\* the offset of the leftmost occurrence of old in s, or -1
find(s, old) ==
  LET at == {i \in 0..(Len(s) - Len(old)) : SubSeq(s, i + 1, i + Len(old)) = old}
  IN  IF at = {} THEN -1 ELSE CHOOSE i \in at : \A j \in at : i <= j

\* s after one pass from left to right that drops each occurrence of old it meets
RECURSIVE one_pass(_, _)
one_pass(s, old) ==
  LET i == find(s, old)
  IN  IF i = -1 THEN s
      ELSE SubSeq(s, 1, i) \o one_pass(SubSeq(s, i + Len(old) + 1, Len(s)), old)

\* s after one pass for each of the strings of olds, in their order
RECURSIVE passes(_, _)
passes(s, olds) ==
  IF olds = <<>> THEN s ELSE passes(one_pass(s, Head(olds)), Tail(olds))

\* the substrings the claim says no key contains
Markers ==
  {<<"#", d, "-">> : d \in {"0", "1", "2", "3", "4", "5", "6", "7", "8", "9"}}
    \cup {<<"_","#">>, <<".","w","a","v">>, <<".","o","g","g">>}

asset_is_skipped(pair) == pair.info = None \/ pair.info.duration <= 0

\* what one iteration of the loop may do to the cursor and the entries
cursor_step ==
  sprite_pos' = sprite_pos + 1 =>
    LET pair == sprite_files[sprite_pos]
    IN  /\ current_time' >= current_time
        /\ asset_is_skipped(pair) =>
              /\ current_time' = current_time
              /\ spritemap' = spritemap
              /\ sprite_created' = sprite_created
        /\ ~asset_is_skipped(pair) =>
              /\ Len(sprite_created') = Len(sprite_created) + 1
              /\ path_stem(pair.filepath) \in DOMAIN spritemap'
              /\ spritemap'[path_stem(pair.filepath)] = sprite_created'[Len(sprite_created')]

\* the entries created so far tile the time line from 0 with gaps of 100 ms
created_in_sequence ==
  /\ sprite_pos = 1 => current_time = 0
  /\ current_time >= 0
  /\ \A n \in 1..Len(sprite_created) :
       /\ sprite_created[n].start <= sprite_created[n].end
       /\ n = 1 => sprite_created[n].start = 0
       /\ n > 1 => /\ sprite_created[n].start >= sprite_created[n - 1].start
                   /\ sprite_created[n].start = sprite_created[n - 1].end + 100
       /\ n = Len(sprite_created) => current_time = sprite_created[n].end + 100

\* C14: the cursor starts at 0 and never decreases; an asset without info or
\* with a duration of 0 or less creates no entry and leaves the cursor where
\* it is; the entries start in non-decreasing order in the order of their
\* creation, and each starts exactly 0.1 s after the end of the one before.
C14_SpriteCursorDiscipline ==
  []created_in_sequence /\ [][cursor_step]_vars

\* the loop has created two entries, with an asset of duration 0 or less
\* between them that it skipped
C14_Witness ==
  /\ sprite_pc = "returned"
  /\ Len(sprite_files) = 3
  /\ ~asset_is_skipped(sprite_files[1])
  /\ asset_is_skipped(sprite_files[2])
  /\ sprite_files[2].info # None
  /\ ~asset_is_skipped(sprite_files[3])
  /\ Len(sprite_created) = 2
  /\ sprite_created[2].start = sprite_created[1].end + 100
====
